---- MODULE Spec2Model ----
(***************************************************************************)
(* The type registry of type-metadata: two interners (strings and type     *)
(* identities), the store of compacted (TypeId, TypeDef) entries, the      *)
(* recursive compaction of descriptors (IntoCompact) and the serde codec   *)
(* of the registry.                                                        *)
(*                                                                         *)
(* register_type is recursive; it is modelled with an explicit call stack  *)
(* so that the states in the middle of a compaction are states of the      *)
(* model.  One frame is one activation of register_type for a new          *)
(* identity: the nested register_string / register_type calls its          *)
(* into_compact still has to make (todo) and the symbols those made so far *)
(* have returned (done).                                                   *)
(***************************************************************************)
EXTENDS Integers, Sequences, FiniteSets, TLC

VARIABLES
    string_table,   \* Registry.string_table: the interned strings, by symbol
    type_table,     \* Registry.type_table: the interned identities, by symbol
    types,          \* Registry.types: BTreeMap symbol -> TypeIdDef
    stack,          \* the active register_type calls, outermost first
    ret,            \* what the last completed top-level call returned
    calls,          \* number of top-level calls made so far
    origin,         \* "new": from Registry::new(); "decoded": from deserialize
    hist            \* what the calls made so far did and returned

vars == <<string_table, type_table, types, stack, ret, calls, origin, hist>>

\* Number of top-level register_string / register_type calls of one run.
MaxCalls == 3
\* Capacity of the call stack, in register_type activations.
MaxDepth == 10

(***************************************************************************)
(* The descriptors.  A MetaType is an identity (any_id) together with the  *)
(* TypeId and the TypeDef it yields; references between descriptors are    *)
(* MetaTypes, here the identity.                                           *)
(***************************************************************************)
Custom(name, namespace, type_params) ==
    [kind |-> "Custom", name |-> name, namespace |-> namespace, type_params |-> type_params]
Slice(type_param) == [kind |-> "Slice", type_param |-> type_param]
Array(len, type_param) == [kind |-> "Array", len |-> len, type_param |-> type_param]
Tuple(type_params) == [kind |-> "Tuple", type_params |-> type_params]
Primitive(prim) == [kind |-> "Primitive", prim |-> prim]

Builtin == [kind |-> "Builtin"]
Struct(fields) == [kind |-> "Struct", fields |-> fields]
TupleStruct(fields) == [kind |-> "TupleStruct", fields |-> fields]
ClikeEnum(variants) == [kind |-> "ClikeEnum", variants |-> variants]
Enum(variants) == [kind |-> "Enum", variants |-> variants]
Union(fields) == [kind |-> "Union", fields |-> fields]

NamedField(name, ty) == [name |-> name, ty |-> ty]
UnnamedField(ty) == [ty |-> ty]
ClikeEnumVariant(name, discriminant) == [name |-> name, discriminant |-> discriminant]
EnumVariantUnit(name) == [kind |-> "Unit", name |-> name]
EnumVariantStruct(name, fields) == [kind |-> "Struct", name |-> name, fields |-> fields]
EnumVariantTupleStruct(name, fields) == [kind |-> "TupleStruct", name |-> name, fields |-> fields]

\* The descriptor graph handed to the registry.  Node references itself in
\* its TypeDef; A and B reference each other through TypeId and TypeDef.
Meta ==
    [ i32   |-> [type_id  |-> Primitive("i32"),
                 type_def |-> Builtin],
      Point |-> [type_id  |-> Custom("Point", <<"pkg", "Point">>, <<>>),
                 type_def |-> Struct(<<NamedField("x", "i32"), NamedField("y", "i32")>>)],
      Node  |-> [type_id  |-> Custom("Node", <<"pkg">>, <<"i32">>),
                 type_def |-> Struct(<<NamedField("val", "i32"), NamedField("next", "Node")>>)],
      A     |-> [type_id  |-> Custom("A", <<>>, <<"B">>),
                 type_def |-> Enum(<<EnumVariantUnit("None"),
                                     EnumVariantTupleStruct("Some", <<UnnamedField("B")>>),
                                     EnumVariantStruct("Rec", <<NamedField("x", "A")>>)>>)],
      B     |-> [type_id  |-> Tuple(<<"A", "i32">>),
                 type_def |-> TupleStruct(<<UnnamedField("A")>>)],
      Days  |-> [type_id  |-> Custom("Days", <<"pkg">>, <<>>),
                 type_def |-> ClikeEnum(<<ClikeEnumVariant("Mon", 0), ClikeEnumVariant("Thu", 42)>>)],
      Arr   |-> [type_id  |-> Array(3, "Days"),
                 type_def |-> Builtin],
      U     |-> [type_id  |-> Slice("Arr"),
                 type_def |-> Union(<<NamedField("inl", "Arr")>>)],
      Unit  |-> [type_id  |-> Tuple(<<>>),
                 type_def |-> TupleStruct(<<>>)] ]

Identities == DOMAIN Meta
\* The strings a caller passes to register_string directly.
TopStrings == {"x", "pkg", "zz"}

\* The names of TypeIdPrimitive's variants, rename_all = "lowercase"
PrimitiveNames ==
    {"bool", "char", "str", "u8", "u16", "u32", "u64", "u128",
     "i8", "i16", "i32", "i64", "i128"}
\* The number of values of u16, the type of TypeIdArray.len
U16 == 65536

any_id(ty) == ty
type_id(ty) == Meta[ty].type_id
type_def(ty) == Meta[ty].type_def

Range(s) == {s[i] : i \in 1..Len(s)}

RECURSIVE Flatten(_)
Flatten(ss) == IF ss = <<>> THEN <<>> ELSE Head(ss) \o Flatten(Tail(ss))

\* The nested calls of an into_compact, in the order the code makes them.
S(s) == [op |-> "register_string", arg |-> s]
T(t) == [op |-> "register_type", arg |-> t]

Namespace_calls(self) == [i \in 1..Len(self) |-> S(self[i])]
TypeIdCustom_calls_namespace_first(self) ==
    Namespace_calls(self.namespace) \o <<S(self.name)>>
        \o [i \in 1..Len(self.type_params) |-> T(self.type_params[i])]
TypeIdCustom_calls(self) ==
    <<S(self.name)>> \o Namespace_calls(self.namespace)
        \o [i \in 1..Len(self.type_params) |-> T(self.type_params[i])]
TypeId_calls(self) ==
    CASE self.kind = "Custom" -> TypeIdCustom_calls(self)
      [] self.kind = "Slice" -> <<T(self.type_param)>>
      [] self.kind = "Array" -> <<T(self.type_param)>>
      [] self.kind = "Tuple" -> [i \in 1..Len(self.type_params) |-> T(self.type_params[i])]
      [] self.kind = "Primitive" -> <<>>

NamedField_calls(self) == <<S(self.name), T(self.ty)>>
UnnamedField_calls(self) == <<T(self.ty)>>
ClikeEnumVariant_calls(self) == <<S(self.name)>>
NamedFields_calls(fields) == Flatten([i \in 1..Len(fields) |-> NamedField_calls(fields[i])])
UnnamedFields_calls(fields) == Flatten([i \in 1..Len(fields) |-> UnnamedField_calls(fields[i])])
EnumVariant_calls(self) ==
    CASE self.kind = "Unit" -> <<S(self.name)>>
      [] self.kind = "Struct" -> <<S(self.name)>> \o NamedFields_calls(self.fields)
      [] self.kind = "TupleStruct" -> <<S(self.name)>> \o UnnamedFields_calls(self.fields)
TypeDef_calls(self) ==
    CASE self.kind = "Builtin" -> <<>>
      [] self.kind = "Struct" -> NamedFields_calls(self.fields)
      [] self.kind = "TupleStruct" -> UnnamedFields_calls(self.fields)
      [] self.kind = "ClikeEnum" ->
            Flatten([i \in 1..Len(self.variants) |-> ClikeEnumVariant_calls(self.variants[i])])
      [] self.kind = "Enum" ->
            Flatten([i \in 1..Len(self.variants) |-> EnumVariant_calls(self.variants[i])])
      [] self.kind = "Union" -> NamedFields_calls(self.fields)


(***************************************************************************)
(* IntoCompact.  Each into_compact builds the compact value of the same    *)
(* variant from the symbols its nested calls returned (syms, in call       *)
(* order); numbers and primitive kinds are copied.                         *)
(***************************************************************************)
Namespace_into_compact(self, syms) == [i \in 1..Len(self) |-> syms[i]]
TypeIdCustom_into_compact(self, syms) ==
    LET n == Len(self.namespace) IN
    Custom(syms[1],
           Namespace_into_compact(self.namespace, SubSeq(syms, 2, n + 1)),
           SubSeq(syms, n + 2, Len(syms)))
TypeIdSlice_into_compact(self, syms) == Slice(syms[1])
TypeIdArray_into_compact(self, syms) == Array(self.len, syms[1])
TypeIdTuple_into_compact(self, syms) == Tuple([i \in 1..Len(self.type_params) |-> syms[i]])
TypeId_into_compact(self, syms) ==
    CASE self.kind = "Custom" -> TypeIdCustom_into_compact(self, syms)
      [] self.kind = "Slice" -> TypeIdSlice_into_compact(self, syms)
      [] self.kind = "Array" -> TypeIdArray_into_compact(self, syms)
      [] self.kind = "Tuple" -> TypeIdTuple_into_compact(self, syms)
      [] self.kind = "Primitive" -> Primitive(self.prim)

NamedField_into_compact(self, syms) == NamedField(syms[1], syms[2])
UnnamedField_into_compact(self, syms) == UnnamedField(syms[1])
NamedFields_into_compact(fields, syms) ==
    [i \in 1..Len(fields) |-> NamedField_into_compact(fields[i], SubSeq(syms, 2 * i - 1, 2 * i))]
UnnamedFields_into_compact(fields, syms) ==
    [i \in 1..Len(fields) |-> UnnamedField_into_compact(fields[i], SubSeq(syms, i, i))]
ClikeEnumVariant_into_compact(self, syms) == ClikeEnumVariant(syms[1], self.discriminant)
EnumVariantUnit_into_compact(self, syms) == EnumVariantUnit(syms[1])
EnumVariantStruct_into_compact(self, syms) ==
    EnumVariantStruct(syms[1], NamedFields_into_compact(self.fields, Tail(syms)))
EnumVariantTupleStruct_into_compact(self, syms) ==
    EnumVariantTupleStruct(syms[1], UnnamedFields_into_compact(self.fields, Tail(syms)))
EnumVariant_into_compact(self, syms) ==
    CASE self.kind = "Unit" -> EnumVariantUnit_into_compact(self, syms)
      [] self.kind = "Struct" -> EnumVariantStruct_into_compact(self, syms)
      [] self.kind = "TupleStruct" -> EnumVariantTupleStruct_into_compact(self, syms)

RECURSIVE EnumVariants_into_compact(_, _)
EnumVariants_into_compact(variants, syms) ==
    IF variants = <<>> THEN <<>>
    ELSE LET n == Len(EnumVariant_calls(Head(variants))) IN
         <<EnumVariant_into_compact(Head(variants), SubSeq(syms, 1, n))>>
             \o EnumVariants_into_compact(Tail(variants), SubSeq(syms, n + 1, Len(syms)))

TypeDefStruct_into_compact(self, syms) == Struct(NamedFields_into_compact(self.fields, syms))
TypeDefTupleStruct_into_compact(self, syms) ==
    TupleStruct(UnnamedFields_into_compact(self.fields, syms))
TypeDefClikeEnum_into_compact(self, syms) ==
    ClikeEnum([i \in 1..Len(self.variants) |->
                  ClikeEnumVariant_into_compact(self.variants[i], SubSeq(syms, i, i))])
TypeDefEnum_into_compact(self, syms) == Enum(EnumVariants_into_compact(self.variants, syms))
\* TypeDefUnion::into_compact building the struct variant.
TypeDefUnion_into_compact_as_struct(self, syms) ==
    Struct(NamedFields_into_compact(self.fields, syms))
TypeDefUnion_into_compact(self, syms) == Union(NamedFields_into_compact(self.fields, syms))
TypeDef_into_compact(self, syms) ==
    CASE self.kind = "Builtin" -> Builtin
      [] self.kind = "Struct" -> TypeDefStruct_into_compact(self, syms)
      [] self.kind = "TupleStruct" -> TypeDefTupleStruct_into_compact(self, syms)
      [] self.kind = "ClikeEnum" -> TypeDefClikeEnum_into_compact(self, syms)
      [] self.kind = "Enum" -> TypeDefEnum_into_compact(self, syms)
      [] self.kind = "Union" -> TypeDefUnion_into_compact(self, syms)

(***************************************************************************)
(* The interner and the registry's operations on its tables.               *)
(***************************************************************************)
\* Interner::intern_or_get: the symbol of a stored value is its position.
intern_or_get(interner, value) ==
    IF \E i \in 1..Len(interner) : interner[i] = value
    THEN [inserted |-> FALSE,
          symbol |-> CHOOSE i \in 1..Len(interner) : interner[i] = value,
          table |-> interner]
    ELSE [inserted |-> TRUE,
          symbol |-> Len(interner) + 1,
          table |-> Append(interner, value)]

\* register_string handing out the 0-based position as the symbol.
register_string_zero_based(table, string) ==
    LET r == intern_or_get(table, string) IN [symbol |-> r.symbol - 1, table |-> r.table]
\* register_string pushing the string without looking it up.
register_string_always_push(table, string) ==
    [symbol |-> Len(table) + 1, table |-> Append(table, string)]
\* register_string putting a new string in front of the stored ones.
register_string_push_front(table, string) ==
    LET r == intern_or_get(table, string) IN
    IF r.inserted THEN [symbol |-> 1, table |-> <<string>> \o table]
    ELSE [symbol |-> r.symbol, table |-> table]

register_string(table, string) ==
    LET r == intern_or_get(table, string) IN [symbol |-> r.symbol, table |-> r.table]

\* intern_type_id without the lookup: every identity is taken as new.
intern_type_id_always_new(table, any_type_id) ==
    [inserted |-> TRUE, symbol |-> Len(table) + 1, table |-> Append(table, any_type_id)]
\* intern_type_id answering a known identity with the newest symbol.
intern_type_id_newest(table, any_type_id) ==
    LET r == intern_or_get(table, any_type_id) IN
    [inserted |-> r.inserted, symbol |-> Len(r.table), table |-> r.table]
\* intern_type_id pushing the identity before it looks it up.
intern_type_id_push_first(table, any_type_id) ==
    LET r == intern_or_get(table, any_type_id) IN
    [inserted |-> r.inserted, symbol |-> r.symbol, table |-> Append(table, any_type_id)]
\* intern_type_id that never records the identity.
intern_type_id_forget(table, any_type_id) ==
    LET r == intern_or_get(table, any_type_id) IN
    [inserted |-> r.inserted, symbol |-> r.symbol, table |-> table]

intern_type_id(table, any_type_id) ==
    LET r == intern_or_get(table, any_type_id) IN
    [inserted |-> r.inserted, symbol |-> r.symbol, table |-> r.table]

\* A store that keeps the entries in the sequence of their insertion.
insert_in_sequence(map, key, value) ==
    [k \in DOMAIN map \cup {Cardinality(DOMAIN map) + 1} |->
        IF k = Cardinality(DOMAIN map) + 1 THEN value ELSE map[k]]
\* BTreeMap::insert
insert(map, key, value) ==
    [k \in DOMAIN map \cup {key} |-> IF k = key THEN value ELSE map[k]]

\* TypeIdDef { id: compact_id, def: compact_def } of a finished activation
TypeIdDef(frame) ==
    LET nid == Len(TypeId_calls(type_id(frame.ty))) IN
    [id  |-> TypeId_into_compact(type_id(frame.ty), SubSeq(frame.done, 1, nid)),
     def |-> TypeDef_into_compact(type_def(frame.ty),
                                  SubSeq(frame.done, nid + 1, Len(frame.done)))]

\* A new activation of register_type for ty, whose identity got symbol.
Frame(ty, symbol) ==
    [ty |-> ty, symbol |-> symbol,
     todo |-> TypeId_calls(type_id(ty)) \o TypeDef_calls(type_def(ty)),
     done |-> <<>>]

(***************************************************************************)
(* The serde codec.  A serialized value is a tree of numbers, strings,     *)
(* lists and maps; a map is the list of its key/value pairs in order.      *)
(* Deserialize yields Ok(value) or Err(kind).                              *)
(***************************************************************************)
Num(n) == [j |-> "num", v |-> n]
Str(s) == [j |-> "str", v |-> s]
Seq_(xs) == [j |-> "seq", v |-> xs]
Map(pairs) == [j |-> "map", v |-> pairs]
KV(k, v) == [k |-> k, v |-> v]
Ok(v) == [ok |-> TRUE, v |-> v]
Err(kind) == [ok |-> FALSE, error |-> kind]

\* UntrackedSymbol: the integer handle itself
Symbol_serialize(symbol) == Num(symbol)
Symbols_serialize(symbols) == Seq_([i \in 1..Len(symbols) |-> Symbol_serialize(symbols[i])])

\* derive(Serialize) of Namespace: a struct with the field segments
Namespace_serialize(self) == Map(<<KV("segments", Symbols_serialize(self))>>)
TypeIdCustom_serialize(self) ==
    Map(<<KV("custom.name", Symbol_serialize(self.name)),
          KV("custom.namespace", Namespace_serialize(self.namespace)),
          KV("custom.params", Symbols_serialize(self.type_params))>>)
TypeIdSlice_serialize(self) == Map(<<KV("slice.type", Symbol_serialize(self.type_param))>>)
TypeIdArray_serialize(self) ==
    Map(<<KV("array.len", Num(self.len)), KV("array.type", Symbol_serialize(self.type_param))>>)
\* serde(transparent): the list of type parameters itself
TypeIdTuple_serialize(self) == Symbols_serialize(self.type_params)
\* rename_all = "lowercase": a unit variant is its name
TypeIdPrimitive_serialize(self) == Str(self.prim)
\* serde(untagged): the variant's value without a tag
TypeId_serialize(self) ==
    CASE self.kind = "Custom" -> TypeIdCustom_serialize(self)
      [] self.kind = "Slice" -> TypeIdSlice_serialize(self)
      [] self.kind = "Array" -> TypeIdArray_serialize(self)
      [] self.kind = "Tuple" -> TypeIdTuple_serialize(self)
      [] self.kind = "Primitive" -> TypeIdPrimitive_serialize(self)

NamedField_serialize(self) ==
    Map(<<KV("name", Symbol_serialize(self.name)), KV("type", Symbol_serialize(self.ty))>>)
\* serde(transparent)
UnnamedField_serialize(self) == Symbol_serialize(self.ty)
NamedFields_serialize(fields) ==
    Seq_([i \in 1..Len(fields) |-> NamedField_serialize(fields[i])])
UnnamedFields_serialize(fields) ==
    Seq_([i \in 1..Len(fields) |-> UnnamedField_serialize(fields[i])])
ClikeEnumVariant_serialize(self) ==
    Map(<<KV("name", Symbol_serialize(self.name)), KV("discriminant", Num(self.discriminant))>>)
EnumVariantUnit_serialize(self) == Map(<<KV("unit_variant.name", Symbol_serialize(self.name))>>)
EnumVariantStruct_serialize(self) ==
    Map(<<KV("struct_variant.name", Symbol_serialize(self.name)),
          KV("struct_variant.fields", NamedFields_serialize(self.fields))>>)
EnumVariantTupleStruct_serialize(self) ==
    Map(<<KV("tuple_struct_variant.name", Symbol_serialize(self.name)),
          KV("tuple_struct_variant.types", UnnamedFields_serialize(self.fields))>>)
EnumVariant_serialize(self) ==
    CASE self.kind = "Unit" -> EnumVariantUnit_serialize(self)
      [] self.kind = "Struct" -> EnumVariantStruct_serialize(self)
      [] self.kind = "TupleStruct" -> EnumVariantTupleStruct_serialize(self)
Builtin_serialize == Str("builtin")
TypeDefStruct_serialize(self) == Map(<<KV("struct.fields", NamedFields_serialize(self.fields))>>)
TypeDefTupleStruct_serialize_unit(self) ==
    IF self.fields = <<>> THEN Str("builtin")
    ELSE Map(<<KV("tuple_struct.types", UnnamedFields_serialize(self.fields))>>)
TypeDefTupleStruct_serialize(self) ==
    Map(<<KV("tuple_struct.types", UnnamedFields_serialize(self.fields))>>)
TypeDefClikeEnum_serialize(self) ==
    Map(<<KV("clike_enum.variants",
             Seq_([i \in 1..Len(self.variants) |-> ClikeEnumVariant_serialize(self.variants[i])]))>>)
TypeDefEnum_serialize(self) ==
    Map(<<KV("enum.variants",
             Seq_([i \in 1..Len(self.variants) |-> EnumVariant_serialize(self.variants[i])]))>>)
TypeDefUnion_serialize(self) == Map(<<KV("union.fields", NamedFields_serialize(self.fields))>>)
TypeDef_serialize(self) ==
    CASE self.kind = "Builtin" -> Builtin_serialize
      [] self.kind = "Struct" -> TypeDefStruct_serialize(self)
      [] self.kind = "TupleStruct" -> TypeDefTupleStruct_serialize(self)
      [] self.kind = "ClikeEnum" -> TypeDefClikeEnum_serialize(self)
      [] self.kind = "Enum" -> TypeDefEnum_serialize(self)
      [] self.kind = "Union" -> TypeDefUnion_serialize(self)
TypeIdDef_serialize(self) ==
    Map(<<KV("id", TypeId_serialize(self.id)), KV("def", TypeDef_serialize(self.def))>>)

\* BTreeMap::values: the values in ascending key order
RECURSIVE values(_)
values(map) ==
    IF DOMAIN map = {} THEN <<>>
    ELSE LET m == CHOOSE k \in DOMAIN map : \A j \in DOMAIN map : k <= j IN
         <<map[m]>> \o values([k \in DOMAIN map \ {m} |-> map[k]])
serialize_registry_types_keyed(map) ==
    LET vs == values(map) IN
    Seq_([i \in 1..Len(vs) |-> Seq_(<<Symbol_serialize(i), TypeIdDef_serialize(vs[i])>>)])
serialize_registry_types(map) ==
    LET vs == values(map) IN Seq_([i \in 1..Len(vs) |-> TypeIdDef_serialize(vs[i])])
\* Interner: the stored values in symbol order
Interner_serialize(interner) == Seq_([i \in 1..Len(interner) |-> Str(interner[i])])
\* derive(Serialize) of Registry: strings, then types; type_table is skipped
Registry_serialize(registry) ==
    Map(<<KV("strings", Interner_serialize(registry.string_table)),
          KV("types", serialize_registry_types(registry.types))>>)

\* A derived struct visitor: from a map by field name (unknown keys are
\* ignored, a repeated or absent field is an error), from a list by position
\* (the list must have exactly the fields).  Yields the fields' values.
Struct_fields(content, fields) ==
    CASE content.j = "map" ->
            LET pairs == content.v
                at(f) == {i \in 1..Len(pairs) : pairs[i].k = f}
            IN IF \E i \in 1..Len(fields) : Cardinality(at(fields[i])) > 1
               THEN Err("duplicate_field")
               ELSE IF \E i \in 1..Len(fields) : at(fields[i]) = {}
               THEN Err("missing_field")
               ELSE Ok([i \in 1..Len(fields) |-> pairs[CHOOSE n \in at(fields[i]) : TRUE].v])
      [] content.j = "seq" ->
            IF Len(content.v) = Len(fields) THEN Ok(content.v) ELSE Err("invalid_length")
      [] OTHER -> Err("invalid_type")
\* What the visitor hands to the i-th field; when the visitor fails there is
\* no value, and no field accepts
Absent == [j |-> "absent"]
Field(content, fields, i) ==
    IF Struct_fields(content, fields).ok THEN Struct_fields(content, fields).v[i] ELSE Absent
\* The struct of the fields names when every field deserialized; rs are the
\* fields' results
Record_results(names, rs) ==
    IF \A i \in 1..Len(rs) : rs[i].ok
    THEN Ok([name \in Range(names) |->
                rs[CHOOSE i \in 1..Len(names) : names[i] = name].v])
    ELSE Err("invalid_value")
\* Vec<T>: a list whose elements all deserialize; rs are the elements' results
Items(content) == IF content.j = "seq" THEN content.v ELSE <<>>
List_results(content, rs) ==
    IF content.j # "seq" THEN Err("invalid_type")
    ELSE IF \A i \in 1..Len(rs) : rs[i].ok
         THEN Ok([i \in 1..Len(rs) |-> rs[i].v])
         ELSE Err("invalid_value")
\* serde(untagged): the first variant, in declaration order, that accepts;
\* rs are the variants' results
Untagged_results(rs) ==
    IF \E i \in 1..Len(rs) : rs[i].ok
    THEN rs[CHOOSE i \in 1..Len(rs) : rs[i].ok /\ \A n \in 1..i - 1 : ~rs[n].ok]
    ELSE Err("no_variant")
\* serde(transparent): the struct is its one field; r is the field's result
Transparent_result(kind, name, r) ==
    Record_results(<<"kind", name>>, <<Ok(kind), r>>)

\* UntrackedSymbol: a non-zero integer (the symbols of the model are far
\* below the 32 bits of the handle)
Symbol_deserialize(content) ==
    IF content.j = "num" /\ content.v >= 1 THEN Ok(content.v)
    ELSE Err("invalid_type")
u16_deserialize(content) ==
    IF content.j = "num" /\ content.v >= 0 /\ content.v < U16 THEN Ok(content.v)
    ELSE Err("invalid_type")
u64_deserialize(content) ==
    IF content.j = "num" /\ content.v >= 0 THEN Ok(content.v) ELSE Err("invalid_type")
Symbols_deserialize(content) ==
    List_results(content,
                 [i \in 1..Len(Items(content)) |-> Symbol_deserialize(Items(content)[i])])

Namespace_deserialize(content) == Symbols_deserialize(Field(content, <<"segments">>, 1))
TypeIdCustom_deserialize(content) ==
    Record_results(<<"kind", "name", "namespace", "type_params">>,
                   <<Ok("Custom"),
                     Symbol_deserialize(
                         Field(content, <<"custom.name", "custom.namespace", "custom.params">>, 1)),
                     Namespace_deserialize(
                         Field(content, <<"custom.name", "custom.namespace", "custom.params">>, 2)),
                     Symbols_deserialize(
                         Field(content, <<"custom.name", "custom.namespace", "custom.params">>, 3))>>)
TypeIdSlice_deserialize(content) ==
    Record_results(<<"kind", "type_param">>,
                   <<Ok("Slice"), Symbol_deserialize(Field(content, <<"slice.type">>, 1))>>)
TypeIdArray_deserialize(content) ==
    Record_results(<<"kind", "len", "type_param">>,
                   <<Ok("Array"),
                     u16_deserialize(Field(content, <<"array.len", "array.type">>, 1)),
                     Symbol_deserialize(Field(content, <<"array.len", "array.type">>, 2))>>)
TypeIdTuple_deserialize(content) ==
    Transparent_result("Tuple", "type_params", Symbols_deserialize(content))
TypeIdPrimitive_deserialize(content) ==
    IF content.j = "str" /\ content.v \in PrimitiveNames THEN Ok(Primitive(content.v))
    ELSE Err("invalid_type")
TypeId_deserialize(content) ==
    Untagged_results(<<TypeIdCustom_deserialize(content),
                       TypeIdSlice_deserialize(content),
                       TypeIdArray_deserialize(content),
                       TypeIdTuple_deserialize(content),
                       TypeIdPrimitive_deserialize(content)>>)

NamedField_deserialize(content) ==
    Record_results(<<"name", "ty">>,
                   <<Symbol_deserialize(Field(content, <<"name", "type">>, 1)),
                     Symbol_deserialize(Field(content, <<"name", "type">>, 2))>>)
UnnamedField_deserialize(content) ==
    Record_results(<<"ty">>, <<Symbol_deserialize(content)>>)
NamedFields_deserialize(content) ==
    List_results(content,
                 [i \in 1..Len(Items(content)) |-> NamedField_deserialize(Items(content)[i])])
UnnamedFields_deserialize(content) ==
    List_results(content,
                 [i \in 1..Len(Items(content)) |-> UnnamedField_deserialize(Items(content)[i])])
ClikeEnumVariant_deserialize(content) ==
    Record_results(<<"name", "discriminant">>,
                   <<Symbol_deserialize(Field(content, <<"name", "discriminant">>, 1)),
                     u64_deserialize(Field(content, <<"name", "discriminant">>, 2))>>)
EnumVariantUnit_deserialize(content) ==
    Record_results(<<"kind", "name">>,
                   <<Ok("Unit"), Symbol_deserialize(Field(content, <<"unit_variant.name">>, 1))>>)
EnumVariantStruct_deserialize(content) ==
    Record_results(<<"kind", "name", "fields">>,
                   <<Ok("Struct"),
                     Symbol_deserialize(
                         Field(content, <<"struct_variant.name", "struct_variant.fields">>, 1)),
                     NamedFields_deserialize(
                         Field(content, <<"struct_variant.name", "struct_variant.fields">>, 2))>>)
EnumVariantTupleStruct_deserialize(content) ==
    Record_results(<<"kind", "name", "fields">>,
                   <<Ok("TupleStruct"),
                     Symbol_deserialize(
                         Field(content, <<"tuple_struct_variant.name", "tuple_struct_variant.types">>, 1)),
                     UnnamedFields_deserialize(
                         Field(content, <<"tuple_struct_variant.name", "tuple_struct_variant.types">>, 2))>>)
EnumVariant_deserialize(content) ==
    Untagged_results(<<EnumVariantUnit_deserialize(content),
                       EnumVariantStruct_deserialize(content),
                       EnumVariantTupleStruct_deserialize(content)>>)
Builtin_deserialize(content) ==
    IF content.j = "str" /\ content.v = "builtin" THEN Ok(Builtin) ELSE Err("invalid_type")
TypeDefStruct_deserialize(content) ==
    Record_results(<<"kind", "fields">>,
                   <<Ok("Struct"), NamedFields_deserialize(Field(content, <<"struct.fields">>, 1))>>)
TypeDefTupleStruct_deserialize(content) ==
    Record_results(<<"kind", "fields">>,
                   <<Ok("TupleStruct"),
                     UnnamedFields_deserialize(Field(content, <<"tuple_struct.types">>, 1))>>)
ClikeEnumVariants_deserialize(content) ==
    List_results(content,
                 [i \in 1..Len(Items(content)) |->
                    ClikeEnumVariant_deserialize(Items(content)[i])])
TypeDefClikeEnum_deserialize(content) ==
    Record_results(<<"kind", "variants">>,
                   <<Ok("ClikeEnum"),
                     ClikeEnumVariants_deserialize(Field(content, <<"clike_enum.variants">>, 1))>>)
EnumVariants_deserialize(content) ==
    List_results(content,
                 [i \in 1..Len(Items(content)) |-> EnumVariant_deserialize(Items(content)[i])])
TypeDefEnum_deserialize(content) ==
    Record_results(<<"kind", "variants">>,
                   <<Ok("Enum"), EnumVariants_deserialize(Field(content, <<"enum.variants">>, 1))>>)
TypeDefUnion_deserialize(content) ==
    Record_results(<<"kind", "fields">>,
                   <<Ok("Union"), NamedFields_deserialize(Field(content, <<"union.fields">>, 1))>>)
TypeDef_deserialize(content) ==
    Untagged_results(<<Builtin_deserialize(content),
                       TypeDefStruct_deserialize(content),
                       TypeDefTupleStruct_deserialize(content),
                       TypeDefClikeEnum_deserialize(content),
                       TypeDefEnum_deserialize(content),
                       TypeDefUnion_deserialize(content)>>)
TypeIdDef_deserialize(content) ==
    Record_results(<<"id", "def">>,
                   <<TypeId_deserialize(Field(content, <<"id", "def">>, 1)),
                     TypeDef_deserialize(Field(content, <<"id", "def">>, 2))>>)
TypeIdDefs_deserialize(content) ==
    List_results(content,
                 [i \in 1..Len(Items(content)) |-> TypeIdDef_deserialize(Items(content)[i])])
\* Interner: the list of strings, each at the position of its symbol
Interner_deserialize(content) ==
    IF content.j = "seq" /\ \A i \in 1..Len(content.v) : content.v[i].j = "str"
    THEN Ok([i \in 1..Len(content.v) |-> content.v[i].v])
    ELSE Err("invalid_type")

None == [some |-> FALSE]
Some(v) == [some |-> TRUE, v |-> v]
visit_map_build_defaults(strings, types_) ==
    Ok([string_table |-> IF strings.some THEN strings.v ELSE <<>>,
        type_table |-> <<>>,
        types |-> IF types_.some THEN [i \in 1..Len(types_.v) |-> types_.v[i]] ELSE <<>>])
\* RegistryVisitor::visit_map, after the loop over the keys
visit_map_build(strings, types_) ==
    IF ~types_.some THEN Err([kind |-> "missing_field", field |-> "strings"])
    ELSE IF ~strings.some THEN Err([kind |-> "missing_field", field |-> "strings"])
    ELSE Ok([string_table |-> strings.v,
             type_table |-> <<>>,
             types |-> [i \in 1..Len(types_.v) |-> types_.v[i]]])
\* strings = Some(map.next_value()?), types = Some(map.next_value()?): r is
\* the result of next_value
visit_map_value(seen, field, r) ==
    IF ~r.ok THEN Err([kind |-> "invalid_value", field |-> field])
    ELSE Ok([seen.v EXCEPT ![field] = Some(r.v)])
\* RegistryVisitor::visit_map, one turn of the loop over the keys of the map:
\* seen holds strings and types as read so far, or the error returned
visit_map_next(seen, key, value) ==
    IF ~seen.ok THEN seen
    ELSE CASE key = "strings" ->
                IF seen.v.strings.some
                THEN Err([kind |-> "duplicate_field", field |-> "strings"])
                ELSE visit_map_value(seen, "strings", Interner_deserialize(value))
           [] key = "types" ->
                IF seen.v.types.some
                THEN Err([kind |-> "duplicate_field", field |-> "types"])
                ELSE visit_map_value(seen, "types", TypeIdDefs_deserialize(value))
           [] OTHER -> Err([kind |-> "unknown_field", field |-> key])
\* RegistryVisitor::visit_map, the loop over the keys of the map
visit_map_loop(pairs, strings, types_) ==
    LET seen[i \in 0..Len(pairs)] ==
            IF i = 0 THEN Ok([strings |-> strings, types |-> types_])
            ELSE visit_map_next(seen[i - 1], pairs[i].k, pairs[i].v)
    IN IF seen[Len(pairs)].ok
       THEN visit_map_build(seen[Len(pairs)].v.strings, seen[Len(pairs)].v.types)
       ELSE seen[Len(pairs)]
visit_map(map) == visit_map_loop(map, None, None)
\* Deserialize for Registry: deserialize_struct with RegistryVisitor
Registry_deserialize(content) ==
    IF content.j = "map" THEN visit_map(content.v)
    ELSE Err([kind |-> "invalid_type", field |-> ""])

registry == [string_table |-> string_table, type_table |-> type_table, types |-> types]

Top == stack[Len(stack)]
Below == SubSeq(stack, 1, Len(stack) - 1)
\* The nested call at the head of the innermost activation returned symbol.
Returned(stk, symbol) ==
    [stk EXCEPT ![Len(stk)] = [@ EXCEPT !.todo = Tail(@), !.done = Append(@, symbol)]]

AllStrings ==
    TopStrings \cup
    UNION {{c.arg : c \in {d \in Range(TypeId_calls(type_id(t)) \o TypeDef_calls(type_def(t))) :
                               d.op = "register_string"}} : t \in Identities}

\* History of the calls: how often each identity was passed to register_type
\* and how often its body was compacted, the
\* symbols each value's calls returned, the keys each identity's entry was
\* stored under, the values in the order they were first passed in, and the
\* identities in the order their entries were stored.
NoHist ==
    [registrations |-> [t \in Identities |-> 0],
     compactions |-> [t \in Identities |-> 0],
     type_results |-> [t \in Identities |-> {}],
     string_results |-> [s \in AllStrings |-> {}],
     stored_at |-> [t \in Identities |-> {}],
     string_order |-> <<>>,
     type_order |-> <<>>,
     finish_order |-> <<>>]
Seen(order, v) == IF v \in Range(order) THEN order ELSE Append(order, v)
NoteString(h, s, symbol) ==
    [h EXCEPT !.string_results[s] = @ \cup {symbol}, !.string_order = Seen(@, s)]
NoteTypeCall(h, ty, inserted) ==
    [h EXCEPT !.type_order = Seen(@, ty),
              !.registrations[ty] = @ + 1,
              !.compactions[ty] = IF inserted THEN @ + 1 ELSE @]
NoteTypeReturn(h, ty, symbol) == [h EXCEPT !.type_results[ty] = @ \cup {symbol}]
NoteStored(h, ty, keys) ==
    [h EXCEPT !.stored_at[ty] = @ \cup keys, !.finish_order = Append(@, ty)]
\* The keys at which the store after differs from the store before.
Written(before, after) ==
    {k \in DOMAIN after : k \notin DOMAIN before \/ after[k] # before[k]}

NoRet == [op |-> "none", arg |-> "", symbol |-> 0]

Init ==
    /\ string_table = <<>>
    /\ type_table = <<>>
    /\ types = <<>>
    /\ stack = <<>>
    /\ ret = NoRet
    /\ calls = 0
    /\ origin = "new"
    /\ hist = NoHist

\* register_string delegating to the interner of the identities.
RegisterString_into_type_table(string) ==
    /\ stack = <<>>
    /\ calls < MaxCalls
    /\ LET r == intern_or_get(type_table, string) IN
        /\ type_table' = r.table
        /\ ret' = [op |-> "register_string", arg |-> string, symbol |-> r.symbol]
        /\ hist' = NoteString(hist, string, r.symbol)
    /\ calls' = calls + 1
    /\ UNCHANGED <<string_table, types, stack, origin>>

\* A caller's registry.register_string(string)
RegisterString(string) ==
    /\ stack = <<>>
    /\ calls < MaxCalls
    /\ LET r == register_string(string_table, string) IN
        /\ string_table' = r.table
        /\ ret' = [op |-> "register_string", arg |-> string, symbol |-> r.symbol]
        /\ hist' = NoteString(hist, string, r.symbol)
    /\ calls' = calls + 1
    /\ UNCHANGED <<type_table, types, stack, origin>>

\* A caller's registry.register_type(&ty): the identity is interned; a known
\* identity returns at once, a new one starts its compaction.
RegisterType(ty) ==
    /\ stack = <<>>
    /\ calls < MaxCalls
    /\ LET r == intern_type_id(type_table, any_id(ty)) IN
        /\ type_table' = r.table
        /\ IF r.inserted
           THEN /\ stack' = <<Frame(ty, r.symbol)>>
                /\ ret' = [op |-> "register_type", arg |-> ty, symbol |-> 0]
                /\ hist' = NoteTypeCall(hist, ty, TRUE)
           ELSE /\ stack' = stack
                /\ ret' = [op |-> "register_type", arg |-> ty, symbol |-> r.symbol]
                /\ hist' = NoteTypeReturn(NoteTypeCall(hist, ty, FALSE), ty, r.symbol)
    /\ calls' = calls + 1
    /\ UNCHANGED <<string_table, types, origin>>

\* The innermost into_compact calls registry.register_string(string)
CompactString ==
    /\ stack # <<>>
    /\ Top.todo # <<>>
    /\ Head(Top.todo).op = "register_string"
    /\ LET string == Head(Top.todo).arg
           r == register_string(string_table, string) IN
        /\ string_table' = r.table
        /\ stack' = Returned(stack, r.symbol)
        /\ hist' = NoteString(hist, string, r.symbol)
    /\ UNCHANGED <<type_table, types, ret, calls, origin>>

\* The innermost into_compact calls registry.register_type(&ty)
CompactType ==
    /\ stack # <<>>
    /\ Top.todo # <<>>
    /\ Head(Top.todo).op = "register_type"
    /\ LET ty == Head(Top.todo).arg
           r == intern_type_id(type_table, any_id(ty)) IN
        /\ type_table' = r.table
        /\ IF r.inserted
           THEN /\ Len(stack) < MaxDepth
                /\ stack' = Append(stack, Frame(ty, r.symbol))
                /\ hist' = NoteTypeCall(hist, ty, TRUE)
           ELSE /\ stack' = Returned(stack, r.symbol)
                /\ hist' = NoteTypeReturn(NoteTypeCall(hist, ty, FALSE), ty, r.symbol)
    /\ UNCHANGED <<string_table, types, ret, calls, origin>>

\* The innermost activation has compacted id and def: it stores the entry
\* under its symbol and returns the symbol to its caller.
Finish ==
    /\ stack # <<>>
    /\ Top.todo = <<>>
    /\ types' = insert(types, Top.symbol, TypeIdDef(Top))
    /\ hist' = NoteTypeReturn(NoteStored(hist, Top.ty, Written(types, types')),
                              Top.ty, Top.symbol)
    /\ IF Len(stack) = 1
       THEN /\ stack' = <<>>
            /\ ret' = [op |-> "register_type", arg |-> Top.ty, symbol |-> Top.symbol]
       ELSE /\ stack' = Returned(Below, Top.symbol)
            /\ ret' = ret
    /\ UNCHANGED <<string_table, type_table, calls, origin>>

Next ==
    \/ \E string \in TopStrings : RegisterString(string)
    \/ \E ty \in Identities : RegisterType(ty)
    \/ CompactString
    \/ CompactType
    \/ Finish

Spec == Init /\ [][Next]_vars

\* The calls are synchronous: an activation that can take its next step does.
FairSpec ==
    Spec /\ WF_vars(CompactString) /\ WF_vars(CompactType) /\ WF_vars(Finish)

(***************************************************************************)
(* Namespace constructors (type_id.rs).  A string is the sequence of its   *)
(* characters, so that identifier syntax and the split on "::" are         *)
(* computed and not assumed.                                               *)
(***************************************************************************)
MaxPath == 4
MaxSegments == 3

Letters == {"a", "Z"}
Digits == {"1"}
Underscore == "_"
Alphabet == Letters \cup Digits \cup {Underscore, ":", ","}
SeqsUpTo(set, n) == UNION {[1..k -> set] : k \in 0..n}
\* the module paths and the segment lists passed to the constructors
ModulePaths == SeqsUpTo(Alphabet, MaxPath)
SegmentWords ==
    {<<>>, <<"a">>, <<"_">>, <<"1">>, <<"Z", "1">>, <<"1", "a">>, <<"a", ",">>, <<"_", "a">>}
SegmentLists == SeqsUpTo(SegmentWords, MaxSegments)

\* utils::is_rust_identifier: non-empty, a letter or underscore first, then
\* letters, digits or underscores
is_rust_identifier(s) ==
    /\ s # <<>>
    /\ s[1] \in Letters \cup {Underscore}
    /\ \A i \in 2..Len(s) : s[i] \in Letters \cup Digits \cup {Underscore}

\* str::split("::"): the pieces between the non-overlapping occurrences of
\* the separator, found from the left; piece is the piece being read
RECURSIVE split_rest(_, _)
split_rest(s, piece) ==
    IF s = <<>> THEN <<piece>>
    ELSE IF Len(s) >= 2 /\ s[1] = ":" /\ s[2] = ":"
         THEN <<piece>> \o split_rest(SubSeq(s, 3, Len(s)), <<>>)
         ELSE split_rest(Tail(s), Append(piece, Head(s)))
\* A split that yields no empty piece.
split_no_empty(s) == SelectSeq(split_rest(s, <<>>), LAMBDA piece : piece # <<>>)
split(s) == split_rest(s, <<>>)

\* Iterator::position: the 0-based index of the first segment that is not an
\* identifier; called only when there is one
position_last(segments) ==
    (CHOOSE i \in 1..Len(segments) :
        /\ ~is_rust_identifier(segments[i])
        /\ \A j \in i + 1..Len(segments) : is_rust_identifier(segments[j])) - 1
position(segments) ==
    (CHOOSE i \in 1..Len(segments) :
        /\ ~is_rust_identifier(segments[i])
        /\ \A j \in 1..i - 1 : is_rust_identifier(segments[j])) - 1

Namespace_new_unchecked(segments) == Ok(segments)
Namespace_new(segments) ==
    IF segments = <<>> THEN Err([kind |-> "MissingSegments"])
    ELSE IF \E i \in 1..Len(segments) : ~is_rust_identifier(segments[i])
         THEN Err([kind |-> "InvalidIdentifier", segment |-> position(segments)])
         ELSE Ok(segments)
Namespace_from_module_path_whole(module_path) == Namespace_new(<<module_path>>)
Namespace_from_module_path(module_path) == Namespace_new(split(module_path))
Namespace_prelude == Ok(<<>>)

\* A caller's Namespace::new(segments)
NamespaceNew(segments) ==
    /\ calls = 0
    /\ ret' = [op |-> "Namespace::new", arg |-> segments, symbol |-> 0,
               result |-> Namespace_new(segments)]
    /\ calls' = calls + 1
    /\ UNCHANGED <<string_table, type_table, types, stack, origin, hist>>

\* A caller's Namespace::from_module_path(module_path)
NamespaceFromModulePath(module_path) ==
    /\ calls = 0
    /\ ret' = [op |-> "Namespace::from_module_path", arg |-> module_path, symbol |-> 0,
               result |-> Namespace_from_module_path(module_path)]
    /\ calls' = calls + 1
    /\ UNCHANGED <<string_table, type_table, types, stack, origin, hist>>

\* A caller's Namespace::prelude()
NamespacePrelude ==
    /\ calls = 0
    /\ ret' = [op |-> "Namespace::prelude", arg |-> <<>>, symbol |-> 0,
               result |-> Namespace_prelude]
    /\ calls' = calls + 1
    /\ UNCHANGED <<string_table, type_table, types, stack, origin, hist>>

\* The constructors are functions of their argument alone: a behaviour makes
\* one call.
NamespaceNext ==
    \/ \E segments \in SegmentLists : NamespaceNew(segments)
    \/ \E module_path \in ModulePaths : NamespaceFromModulePath(module_path)
    \/ NamespacePrelude

NamespaceSpec == Init /\ [][NamespaceNext]_vars

(***************************************************************************)
(* Observations used by the properties.                                    *)
(***************************************************************************)
Idle == stack = <<>>
OnStack(ty) == \E i \in 1..Len(stack) : stack[i].ty = ty
\* ty was passed to register_type and every call for it has returned.
Completed(ty) == ty \in Range(hist.type_order) /\ ~OnStack(ty)
IndexOf(seq, v) == CHOOSE i \in 1..Len(seq) : seq[i] = v

\* Registry::definitions: the values of types in key order
RECURSIVE SortedKeys(_)
SortedKeys(keys) ==
    IF keys = {} THEN <<>>
    ELSE LET m == CHOOSE k \in keys : \A j \in keys : k <= j IN
         <<m>> \o SortedKeys(keys \ {m})
definitions == LET ks == SortedKeys(DOMAIN types) IN [i \in 1..Len(ks) |-> types[ks[i]]]

\* The identities a descriptor references, in call order, and their set.
TypeRefs(ty) ==
    LET cs == TypeId_calls(type_id(ty)) \o TypeDef_calls(type_def(ty))
        F[i \in 0..Len(cs)] ==
            IF i = 0 THEN <<>>
            ELSE IF cs[i].op = "register_type" THEN Append(F[i - 1], cs[i].arg) ELSE F[i - 1]
    IN F[Len(cs)]
RECURSIVE Closure(_)
Closure(set) ==
    LET more == set \cup UNION {Range(TypeRefs(u)) : u \in set} IN
    IF more = set THEN set ELSE Closure(more)
\* The descriptors that reach their own identity, directly or through a chain.
SelfReferential == {ty \in Identities : ty \in Closure(Range(TypeRefs(ty)))}

\* The type symbols written into a compacted entry, in the order of TypeRefs.
CompactFields_type_symbols(fields) == [i \in 1..Len(fields) |-> fields[i].ty]
CompactTypeId_type_symbols(id) ==
    CASE id.kind = "Custom" -> id.type_params
      [] id.kind = "Slice" -> <<id.type_param>>
      [] id.kind = "Array" -> <<id.type_param>>
      [] id.kind = "Tuple" -> id.type_params
      [] id.kind = "Primitive" -> <<>>
CompactEnumVariant_type_symbols(v) ==
    IF v.kind = "Unit" THEN <<>> ELSE CompactFields_type_symbols(v.fields)
CompactTypeDef_type_symbols(def) ==
    CASE def.kind \in {"Struct", "TupleStruct", "Union"} -> CompactFields_type_symbols(def.fields)
      [] def.kind = "Enum" ->
            Flatten([i \in 1..Len(def.variants) |->
                        CompactEnumVariant_type_symbols(def.variants[i])])
      [] OTHER -> <<>>
TypeSymbols(entry) ==
    CompactTypeId_type_symbols(entry.id) \o CompactTypeDef_type_symbols(entry.def)

(***************************************************************************)
(* Encode, decode and the read accessors (registry.rs).  Decode yields a   *)
(* new Registry that the caller goes on with; a failed decode yields none  *)
(* and the caller keeps the registry it had.                               *)
(***************************************************************************)
Reverse(s) == [i \in 1..Len(s) |-> s[Len(s) + 1 - i]]
\* The serialized registries handed to decode: what encode wrote, and that
\* with its top-level fields reordered, absent or repeated, with the list
\* of types in another order, with a field the Registry does not have, or
\* with a number in the place of the list of strings.
DocumentKinds ==
    {"encoded", "types_first", "no_strings", "no_types", "no_fields",
     "strings_twice", "strings_again", "types_twice", "only_types_twice",
     "types_reversed", "unknown_field", "strings_not_a_list"}
Document(kind) ==
    LET encoded == Registry_serialize(registry)
        s == encoded.v[1]
        t == encoded.v[2]
    IN CASE kind = "encoded" -> Map(<<s, t>>)
         [] kind = "types_first" -> Map(<<t, s>>)
         [] kind = "no_strings" -> Map(<<t>>)
         [] kind = "no_types" -> Map(<<s>>)
         [] kind = "no_fields" -> Map(<<>>)
         [] kind = "strings_twice" -> Map(<<s, s, t>>)
         [] kind = "strings_again" -> Map(<<s, t, s>>)
         [] kind = "types_twice" -> Map(<<s, t, t>>)
         [] kind = "only_types_twice" -> Map(<<t, t>>)
         [] kind = "types_reversed" -> Map(<<s, KV("types", Seq_(Reverse(t.v.v)))>>)
         [] kind = "unknown_field" -> Map(<<KV("version", Num(1)), s, t>>)
         [] kind = "strings_not_a_list" -> Map(<<KV("strings", Num(0))>>)

\* Registry::iter: the key/value pairs of types in key order
iter_descending ==
    LET ks == Reverse(SortedKeys(DOMAIN types)) IN
    [i \in 1..Len(ks) |-> [key |-> ks[i], value |-> types[ks[i]]]]
iter ==
    LET ks == SortedKeys(DOMAIN types) IN
    [i \in 1..Len(ks) |-> [key |-> ks[i], value |-> types[ks[i]]]]
\* Registry::strings: Interner::symbols of string_table, the strings in
\* symbol order
strings == [i \in 1..Len(string_table) |-> string_table[i]]

\* A caller serializes the registry.
Serialize ==
    /\ stack = <<>>
    /\ calls < MaxCalls
    /\ ret' = [op |-> "serialize", arg |-> "", symbol |-> 0,
               result |-> Registry_serialize(registry)]
    /\ calls' = calls + 1
    /\ UNCHANGED <<string_table, type_table, types, stack, origin, hist>>

\* A caller deserializes the document of the given kind into a Registry.
Deserialize(kind) ==
    /\ stack = <<>>
    /\ calls < MaxCalls
    /\ \E document \in {Document(kind)} : \E r \in {Registry_deserialize(document)} :
        /\ ret' = [op |-> "deserialize", arg |-> document, symbol |-> 0, result |-> r]
        /\ IF r.ok
           THEN /\ string_table' = r.v.string_table
                /\ type_table' = r.v.type_table
                /\ types' = r.v.types
                /\ origin' = "decoded"
                /\ hist' = NoHist
           ELSE UNCHANGED <<string_table, type_table, types, origin, hist>>
    /\ calls' = calls + 1
    /\ UNCHANGED stack

\* What the traversals made since the last call of another kind yielded.
\* The traversals a caller made since the last call that was not a
\* traversal: what each accessor yielded (seen), and how many they were
ReadOps == {"definitions", "iter", "strings"}
Traversals == IF ret.op \in ReadOps THEN ret.seen ELSE [op \in ReadOps |-> None]
Read(op, result) ==
    /\ stack = <<>>
    /\ calls < MaxCalls
    /\ ret' = [op |-> op, arg |-> "", symbol |-> 0, result |-> result,
               seen |-> [Traversals EXCEPT ![op] = Some(result)],
               reads |-> IF ret.op \in ReadOps THEN ret.reads + 1 ELSE 1]
    /\ calls' = calls + 1
    /\ UNCHANGED <<string_table, type_table, types, stack, origin, hist>>
\* A caller traverses registry.definitions(), registry.iter(), registry.strings()
Definitions == Read("definitions", definitions)
Iter == Read("iter", iter)
Strings == Read("strings", strings)

ApiNext ==
    \/ Next
    \/ Serialize
    \/ \E kind \in DocumentKinds : Deserialize(kind)
    \/ Definitions
    \/ Iter
    \/ Strings

ApiSpec == Init /\ [][ApiNext]_vars

(***************************************************************************)
(* The untagged encodings of TypeId, TypeDef and EnumVariant in compact    *)
(* form, applied to every value with at most MaxFields fields or variants  *)
(* over the symbols 1..MaxSymbol.  A behaviour serializes one value and    *)
(* deserializes what was written.                                          *)
(***************************************************************************)
MaxSymbol == 2
MaxFields == 2
MaxParams == 3

Symbols == 1..MaxSymbol
CompactNamedFields ==
    SeqsUpTo({NamedField(name, ty) : name \in Symbols, ty \in Symbols}, MaxFields)
CompactUnnamedFields == SeqsUpTo({UnnamedField(ty) : ty \in Symbols}, MaxFields)
CompactTypeIds ==
    {Custom(name, namespace, type_params) :
        name \in Symbols, namespace \in SeqsUpTo(Symbols, 1), type_params \in SeqsUpTo(Symbols, 1)}
    \cup {Slice(type_param) : type_param \in Symbols}
    \cup {Array(len, type_param) : len \in {0, 1, 3}, type_param \in Symbols}
    \cup {Tuple(type_params) : type_params \in SeqsUpTo(Symbols, MaxParams)}
    \cup {Primitive(prim) : prim \in PrimitiveNames}
CompactEnumVariants ==
    {EnumVariantUnit(name) : name \in Symbols}
    \cup {EnumVariantStruct(name, fields) : name \in Symbols, fields \in CompactNamedFields}
    \cup {EnumVariantTupleStruct(name, fields) : name \in Symbols, fields \in CompactUnnamedFields}
CompactTypeDefs ==
    {Builtin}
    \cup {Struct(fields) : fields \in CompactNamedFields}
    \cup {TupleStruct(fields) : fields \in CompactUnnamedFields}
    \cup {ClikeEnum(variants) :
            variants \in SeqsUpTo({ClikeEnumVariant(name, discriminant) :
                                        name \in Symbols, discriminant \in {0, 42}}, MaxFields)}
    \cup {Enum(variants) : variants \in SeqsUpTo(CompactEnumVariants, 1)}
    \cup {Union(fields) : fields \in CompactNamedFields}

\* value.serialize(serializer): content is what was written
Serialized(op, value, content) ==
    /\ calls = 0
    /\ ret' = [op |-> op, arg |-> value, symbol |-> 0, result |-> content]
    /\ calls' = calls + 1
    /\ UNCHANGED <<string_table, type_table, types, stack, origin, hist>>
SerializeTypeId(id) == Serialized("TypeId::serialize", id, TypeId_serialize(id))
SerializeTypeDef(def) == Serialized("TypeDef::serialize", def, TypeDef_serialize(def))
SerializeEnumVariant(variant) ==
    Serialized("EnumVariant::serialize", variant, EnumVariant_serialize(variant))

\* T::deserialize(deserializer) of what was written for value
Deserialized(from, op, result) ==
    /\ ret.op = from
    /\ ret' = [op |-> op, arg |-> ret.result, symbol |-> 0, result |-> result,
               value |-> ret.arg]
    /\ UNCHANGED <<string_table, type_table, types, stack, calls, origin, hist>>
DeserializeTypeId ==
    Deserialized("TypeId::serialize", "TypeId::deserialize", TypeId_deserialize(ret.result))
DeserializeTypeDef ==
    Deserialized("TypeDef::serialize", "TypeDef::deserialize", TypeDef_deserialize(ret.result))
DeserializeEnumVariant ==
    Deserialized("EnumVariant::serialize", "EnumVariant::deserialize",
                 EnumVariant_deserialize(ret.result))

CodecNext ==
    \/ \E id \in CompactTypeIds : SerializeTypeId(id)
    \/ \E def \in CompactTypeDefs : SerializeTypeDef(def)
    \/ \E variant \in CompactEnumVariants : SerializeEnumVariant(variant)
    \/ DeserializeTypeId
    \/ DeserializeTypeDef
    \/ DeserializeEnumVariant

CodecSpec == Init /\ [][CodecNext]_vars

(***************************************************************************)
(* C1.  register_type returns on every descriptor graph, cyclic ones       *)
(* included, and what register_type and register_string return is a        *)
(* symbol (>= 1): there is no failure outcome.                             *)
(***************************************************************************)
C1_Terminates ==
    /\ [](Idle /\ ret.op = "register_string" => ret.symbol \in 1..Len(string_table))
    /\ [](Idle /\ ret.op = "register_type" => ret.symbol \in 1..Len(type_table))
    /\ (~Idle) ~> (Idle /\ ret.op = "register_type" /\ ret.symbol >= 1)
\* A register_type of A, which reaches itself through B, has returned.
C1_Witness ==
    /\ Idle
    /\ ret.op = "register_type" /\ ret.arg = "A" /\ ret.symbol >= 1
    /\ "A" \in SelfReferential
    /\ {"A", "B"} \subseteq Range(type_table)

(***************************************************************************)
(* C2.  In a registry from Registry::new(), an identity registered N >= 1  *)
(* times, by top-level calls or as a nested reference, has its body        *)
(* compacted exactly once, has exactly one entry in definitions() once its *)
(* calls have returned, and every call for it returned the same symbol.    *)
(***************************************************************************)
C2_AtMostOnce ==
    origin = "new" =>
        /\ \A ty \in Identities :
              hist.registrations[ty] >= 1 =>
                /\ hist.compactions[ty] = 1
                /\ Cardinality(hist.type_results[ty]) <= 1
                /\ Completed(ty) =>
                      /\ Cardinality(hist.type_results[ty]) = 1
                      /\ Cardinality(hist.stored_at[ty] \cap DOMAIN types) = 1
        /\ Idle => Len(definitions) = Cardinality({ty \in Identities : hist.registrations[ty] >= 1})
\* i32 was registered three times or more, nested and at top level.
C2_Witness ==
    /\ Idle /\ origin = "new"
    /\ ret.op = "register_type" /\ ret.arg = "i32"
    /\ hist.registrations["i32"] >= 3
    /\ hist.compactions["i32"] = 1
    /\ "Point" \in Range(type_table)

(***************************************************************************)
(* C3.  For a descriptor that references its own identity, directly or     *)
(* through a chain, the symbol returned, the key its entry is stored under *)
(* and the type symbol written at every reference to it in a stored body   *)
(* are one value, and its body is compacted once.                          *)
(***************************************************************************)
C3_CycleConsistent ==
    origin = "new" =>
        \A ty \in SelfReferential :
            Completed(ty) =>
                \E s \in 1..Len(type_table) :
                    /\ hist.type_results[ty] = {s}
                    /\ hist.stored_at[ty] = {s}
                    /\ s \in DOMAIN types
                    /\ hist.compactions[ty] = 1
                    /\ \A u \in Identities : \A k \in hist.stored_at[u] \cap DOMAIN types :
                          \A i \in 1..Len(TypeRefs(u)) :
                              TypeRefs(u)[i] = ty =>
                                  /\ i <= Len(TypeSymbols(types[k]))
                                  /\ TypeSymbols(types[k])[i] = s
\* Node (direct self-reference) and A, B (a chain) are all stored.
C3_Witness ==
    /\ Idle /\ origin = "new"
    /\ {"Node", "A", "B"} \subseteq SelfReferential
    /\ Completed("Node") /\ Completed("A") /\ Completed("B")
    /\ hist.type_results["A"] # hist.type_results["Node"]


(***************************************************************************)
(* C4 as stated.  The entry of an identity is in the entries store from    *)
(* the moment register_type begins compacting that identity.               *)
(***************************************************************************)
C4_EntryVisibleFromStart ==
    \A i \in 1..Len(stack) : stack[i].symbol \in DOMAIN types

(***************************************************************************)
(* C4 amended.  For any identity at most one entry ever exists.  From the  *)
(* moment register_type begins compacting an identity, the identity is     *)
(* visible for lookup in the type-identity table under its symbol; its     *)
(* entry is inserted into the entries store only when its compaction       *)
(* completes.                                                              *)
(***************************************************************************)
C4_IdentityVisibleFromStart ==
    origin = "new" =>
        /\ \A ty \in Identities : Cardinality(hist.stored_at[ty]) <= 1
        /\ \A i \in 1..Len(stack) :
            /\ stack[i].symbol \in 1..Len(type_table)
            /\ type_table[stack[i].symbol] = stack[i].ty
            /\ stack[i].symbol \notin DOMAIN types
        /\ \A ty \in Identities : Completed(ty) => IndexOf(type_table, ty) \in DOMAIN types
\* A is being compacted, has descended into B, and B into i32.
C4_Witness ==
    /\ origin = "new"
    /\ Len(stack) = 3
    /\ stack[1].ty = "A" /\ stack[2].ty = "B" /\ stack[3].ty = "i32"
    /\ stack[1].done # <<>>

(***************************************************************************)
(* C5.  A register_type call for an identity that is already interned      *)
(* returns the existing symbol and changes nothing: string table, type     *)
(* table and entries store stay as they are, and no compaction (no nested  *)
(* call) is started.                                                       *)
(***************************************************************************)
KnownTopCall(ty) == ty \in Range(type_table) /\ RegisterType(ty)
KnownNestedCall(ty) ==
    /\ ty \in Range(type_table)
    /\ stack # <<>>
    /\ Top.todo # <<>>
    /\ Head(Top.todo) = T(ty)
    /\ CompactType
C5_KnownIdentityNoWork ==
    [][\A ty \in Identities :
        /\ KnownTopCall(ty) =>
            /\ ret' = [op |-> "register_type", arg |-> ty, symbol |-> IndexOf(type_table, ty)]
            /\ stack' = <<>>
            /\ UNCHANGED <<string_table, type_table, types>>
            /\ hist'.compactions = hist.compactions
        /\ KnownNestedCall(ty) =>
            /\ stack' = Returned(stack, IndexOf(type_table, ty))
            /\ UNCHANGED <<string_table, type_table, types>>
            /\ hist'.compactions = hist.compactions
      ]_vars
\* A top-level call for the already registered Node has returned.
C5_Witness ==
    /\ Idle
    /\ ret.op = "register_type" /\ ret.arg = "Node"
    /\ hist.registrations["Node"] >= 3
    /\ ret.symbol = IndexOf(type_table, "Node")


(***************************************************************************)
(* C6.  In both interners a value not yet present gets the symbol          *)
(* (number of stored values) + 1: in a registry from Registry::new() the   *)
(* assigned symbols are exactly 1..n, the k-th distinct value passed in    *)
(* has symbol k, and no value has symbol 0.                                *)
(***************************************************************************)
C6_DenseSymbols ==
    origin = "new" =>
        /\ Len(string_table) = Len(hist.string_order)
        /\ \A k \in 1..Len(hist.string_order) :
              hist.string_results[hist.string_order[k]] = {k}
        /\ UNION {hist.string_results[s] : s \in AllStrings} = 1..Len(hist.string_order)
        /\ Len(type_table) = Len(hist.type_order)
        /\ \A k \in 1..Len(hist.type_order) :
              LET ty == hist.type_order[k] IN
              /\ hist.type_results[ty] \subseteq {k}
              /\ Completed(ty) => hist.type_results[ty] = {k}
              /\ \A i \in 1..Len(stack) : stack[i].ty = ty => stack[i].symbol = k
        /\ Idle => UNION {hist.type_results[ty] : ty \in Identities} = 1..Len(hist.type_order)
\* Several strings and identities were interned, some of them repeatedly.
C6_Witness ==
    /\ Idle /\ origin = "new"
    /\ Len(hist.string_order) >= 5
    /\ Len(hist.type_order) >= 4
    /\ hist.string_results["zz"] = {Len(hist.string_order)}
    /\ hist.registrations["i32"] >= 2

(***************************************************************************)
(* C7.  register_string is idempotent: all calls with one string return    *)
(* one symbol, whatever calls lie in between; a call grows the string      *)
(* table by at most one element, and by none for a registered string.      *)
(***************************************************************************)
StringCall(s) ==
    \/ RegisterString(s)
    \/ /\ stack # <<>>
       /\ Top.todo # <<>>
       /\ Head(Top.todo) = S(s)
       /\ CompactString
C7_StringIdempotent ==
    /\ [](\A s \in AllStrings : Cardinality(hist.string_results[s]) <= 1)
    /\ [][\A s \in AllStrings :
            StringCall(s) =>
                /\ Len(string_table') \in {Len(string_table), Len(string_table) + 1}
                /\ s \in Range(string_table) => string_table' = string_table
                /\ hist.string_results[s] # {} => hist'.string_results[s] = hist.string_results[s]
         ]_vars
\* "x" was interned while Point was compacted, then registered by a caller.
C7_Witness ==
    /\ Idle
    /\ ret.op = "register_string" /\ ret.arg = "x"
    /\ "Point" \in Range(type_table)
    /\ ret.symbol = IndexOf(string_table, "x")
    /\ ret.symbol < Len(string_table)

(***************************************************************************)
(* C8.  Symbol bindings are stable over register_string / register_type:   *)
(* a value keeps the symbol it was given, no symbol passes to another      *)
(* value, and string table, type table and entries store only grow.        *)
(***************************************************************************)
Extends(before, after) ==
    /\ Len(before) <= Len(after)
    /\ \A i \in 1..Len(before) : after[i] = before[i]
C8_StableBindings ==
    /\ [](\A s1, s2 \in AllStrings :
            s1 # s2 => hist.string_results[s1] \cap hist.string_results[s2] = {})
    /\ [](\A t1, t2 \in Identities :
            t1 # t2 => hist.type_results[t1] \cap hist.type_results[t2] = {})
    /\ [][/\ Extends(string_table, string_table')
          /\ Extends(type_table, type_table')
          /\ \A k \in DOMAIN types : k \in DOMAIN types' /\ types'[k] = types[k]
          /\ \A s \in AllStrings :
                hist.string_results[s] # {} => hist'.string_results[s] = hist.string_results[s]
          /\ \A ty \in Identities :
                hist.type_results[ty] # {} => hist'.type_results[ty] = hist.type_results[ty]
         ]_vars
\* Tables and store have grown over several calls.
C8_Witness ==
    /\ Idle
    /\ calls = 3
    /\ Len(string_table) >= 6
    /\ Len(type_table) >= 5
    /\ Cardinality(DOMAIN types) >= 5

(***************************************************************************)
(* C9.  Compaction preserves shape: a stored TypeId, TypeDef or            *)
(* EnumVariant is the variant of the descriptor it was made from, with as  *)
(* many fields, variants, type parameters and namespace segments in the    *)
(* same order, each string replaced by its register_string symbol and each *)
(* type reference by its register_type symbol; array length,               *)
(* discriminants, primitive kind and Builtin are unchanged.                *)
(***************************************************************************)
StringIs(sym, s) ==
    sym \in 1..Len(string_table) /\ string_table[sym] = s /\ hist.string_results[s] = {sym}
TypeIs(sym, ty) ==
    sym \in 1..Len(type_table) /\ type_table[sym] = ty /\ hist.type_results[ty] \subseteq {sym}
StringsAre(c, o) == Len(c) = Len(o) /\ \A i \in 1..Len(o) : StringIs(c[i], o[i])
TypesAre(c, o) == Len(c) = Len(o) /\ \A i \in 1..Len(o) : TypeIs(c[i], o[i])
SameFields(c, o) == DOMAIN c = DOMAIN o
TypeId_shape(c, o) ==
    /\ SameFields(c, o)
    /\ c.kind = o.kind
    /\ CASE o.kind = "Custom" ->
                /\ StringIs(c.name, o.name)
                /\ StringsAre(c.namespace, o.namespace)
                /\ TypesAre(c.type_params, o.type_params)
         [] o.kind = "Slice" -> TypeIs(c.type_param, o.type_param)
         [] o.kind = "Array" -> c.len = o.len /\ TypeIs(c.type_param, o.type_param)
         [] o.kind = "Tuple" -> TypesAre(c.type_params, o.type_params)
         [] o.kind = "Primitive" -> c.prim = o.prim
NamedFields_shape(c, o) ==
    /\ Len(c) = Len(o)
    /\ \A i \in 1..Len(o) :
        SameFields(c[i], o[i]) /\ StringIs(c[i].name, o[i].name) /\ TypeIs(c[i].ty, o[i].ty)
UnnamedFields_shape(c, o) ==
    /\ Len(c) = Len(o)
    /\ \A i \in 1..Len(o) : SameFields(c[i], o[i]) /\ TypeIs(c[i].ty, o[i].ty)
EnumVariant_shape(c, o) ==
    /\ SameFields(c, o)
    /\ c.kind = o.kind
    /\ StringIs(c.name, o.name)
    /\ CASE o.kind = "Unit" -> TRUE
         [] o.kind = "Struct" -> NamedFields_shape(c.fields, o.fields)
         [] o.kind = "TupleStruct" -> UnnamedFields_shape(c.fields, o.fields)
TypeDef_shape(c, o) ==
    /\ SameFields(c, o)
    /\ c.kind = o.kind
    /\ CASE o.kind = "Builtin" -> TRUE
         [] o.kind = "Struct" -> NamedFields_shape(c.fields, o.fields)
         [] o.kind = "TupleStruct" -> UnnamedFields_shape(c.fields, o.fields)
         [] o.kind = "ClikeEnum" ->
                /\ Len(c.variants) = Len(o.variants)
                /\ \A i \in 1..Len(o.variants) :
                    /\ SameFields(c.variants[i], o.variants[i])
                    /\ StringIs(c.variants[i].name, o.variants[i].name)
                    /\ c.variants[i].discriminant = o.variants[i].discriminant
         [] o.kind = "Enum" ->
                /\ Len(c.variants) = Len(o.variants)
                /\ \A i \in 1..Len(o.variants) : EnumVariant_shape(c.variants[i], o.variants[i])
         [] o.kind = "Union" -> NamedFields_shape(c.fields, o.fields)
C9_ShapePreserved ==
    origin = "new" =>
        \A ty \in Identities :
            /\ Completed(ty) => hist.stored_at[ty] \cap DOMAIN types # {}
            /\ \A k \in hist.stored_at[ty] \cap DOMAIN types :
                /\ TypeId_shape(types[k].id, type_id(ty))
                /\ TypeDef_shape(types[k].def, type_def(ty))
\* U, A and Node with all they reference are stored: every variant of
\* TypeId, TypeDef and EnumVariant occurs among the entries.
C9_Witness ==
    /\ Idle /\ origin = "new"
    /\ \A ty \in {"U", "Arr", "Days", "A", "B", "i32", "Node"} : Completed(ty)
    /\ {types[k].id.kind : k \in DOMAIN types}
          = {"Custom", "Slice", "Array", "Tuple", "Primitive"}
    /\ {types[k].def.kind : k \in DOMAIN types}
          = {"Builtin", "Struct", "TupleStruct", "ClikeEnum", "Enum", "Union"}


(***************************************************************************)
(* C10.  Round trip: for a registry built from Registry::new() by          *)
(* completed register calls, encode(decode(encode(registry))) equals       *)
(* encode(registry): the same strings and the same compacted entries in    *)
(* the same order.                                                         *)
(***************************************************************************)
C10_RoundTrip ==
    (Idle /\ origin = "new") =>
        LET encoded == Registry_serialize(registry)
            decoded == Registry_deserialize(encoded)
        IN decoded.ok /\ Registry_serialize(decoded.v) = encoded

(***************************************************************************)
(* C11.  Decode stores the entry at 0-based position i of the serialized   *)
(* types list under the identity symbol i+1; so for a registry built from  *)
(* Registry::new() by completed register_type calls, decode(encode(r))     *)
(* stores each entry of r under the symbol it had in r, and every type     *)
(* symbol in a stored entry refers to the same entry as before.            *)
(***************************************************************************)
TypesList(document) ==
    LET pairs == document.v IN
    pairs[CHOOSE i \in 1..Len(pairs) : pairs[i].k = "types"].v.v
C11_SameSymbolAfterDecode ==
    /\ (ret.op = "deserialize" /\ ret.result.ok) =>
            LET list == TypesList(ret.arg) IN
            /\ DOMAIN types = 1..Len(list)
            /\ \A i \in 0..Len(list) - 1 :
                    Ok(types[i + 1]) = TypeIdDef_deserialize(list[i + 1])
    /\ (Idle /\ origin = "new") =>
            LET decoded == Registry_deserialize(Registry_serialize(registry)) IN
            /\ decoded.ok
            /\ DOMAIN decoded.v.types = DOMAIN types
            /\ \A symbol \in DOMAIN types : decoded.v.types[symbol] = types[symbol]

(***************************************************************************)
(* C12.  Encode writes the interned strings as a list in ascending         *)
(* string-symbol order (the k-th element is the string with symbol k) and  *)
(* the values of the entries store, in key order, as the types list; no    *)
(* identity symbol and nothing of the type-identity table is written.      *)
(***************************************************************************)
C12_EncodedForm ==
    ret.op = "serialize" =>
        LET encoded == ret.result
            keys == SortedKeys(DOMAIN types)
        IN /\ encoded.j = "map"
           /\ [i \in 1..Len(encoded.v) |-> encoded.v[i].k] = <<"strings", "types">>
           /\ encoded.v[1].v.j = "seq"
           /\ Len(encoded.v[1].v.v) = Len(string_table)
           /\ \A k \in 1..Len(string_table) :
                /\ encoded.v[1].v.v[k].j = "str"
                /\ register_string(string_table, encoded.v[1].v.v[k].v).symbol = k
           /\ encoded.v[2].v.j = "seq"
           /\ Len(encoded.v[2].v.v) = Cardinality(DOMAIN types)
           /\ \A i \in 1..Len(keys) :
                /\ i < Len(keys) => keys[i] < keys[i + 1]
                /\ encoded.v[2].v.v[i] =
                        Map(<<KV("id", TypeId_serialize(types[keys[i]].id)),
                              KV("def", TypeDef_serialize(types[keys[i]].def))>>)
           /\ \A other \in {type_table, <<>>, Reverse(type_table)} :
                Registry_serialize([registry EXCEPT !.type_table = other]) = encoded
\* Three entries were stored before the registry was serialized.
C12_Witness ==
    /\ ret.op = "serialize"
    /\ Cardinality(DOMAIN types) = 3
    /\ Len(string_table) >= 2
    /\ origin = "new"

(***************************************************************************)
(* C13.  As stated: decoding a document that lacks strings or lacks types  *)
(* fails with a missing-field error, and decoding one in which strings or  *)
(* types occurs twice fails with a duplicate-field error; no Registry is   *)
(* produced in either case.                                                 *)
(***************************************************************************)
Count(document, field) ==
    Cardinality({i \in 1..Len(document.v) : document.v[i].k = field})
Lacks(document) == \E field \in {"strings", "types"} : Count(document, field) = 0
Repeats(document) == \E field \in {"strings", "types"} : Count(document, field) > 1
FailsWith(kind) == ~ret.result.ok /\ ret.result.error.kind = kind
C13_MissingOrDuplicate ==
    ret.op = "deserialize" =>
        /\ Lacks(ret.arg) => FailsWith("missing_field")
        /\ Repeats(ret.arg) => FailsWith("duplicate_field")
(***************************************************************************)
(* C13, amended.  For a document whose top-level keys are only strings and *)
(* types and whose field values decode: if strings or types occurs twice,  *)
(* decoding fails with a duplicate-field error; if neither occurs twice    *)
(* and strings or types is absent, it fails with a missing-field error; no *)
(* Registry is produced in either case.                                     *)
(***************************************************************************)
FieldsDecode(document) ==
    \A i \in 1..Len(document.v) :
        LET value == document.v[i].v IN
        CASE document.v[i].k = "strings" -> Interner_deserialize(value).ok
          [] document.v[i].k = "types" ->
                /\ value.j = "seq"
                /\ \A n \in 1..Len(value.v) : TypeIdDef_deserialize(value.v[n]).ok
          [] OTHER -> FALSE
C13_DuplicateBeforeMissing ==
    (ret.op = "deserialize" /\ FieldsDecode(ret.arg)) =>
        /\ Repeats(ret.arg) => FailsWith("duplicate_field")
        /\ (Lacks(ret.arg) /\ ~Repeats(ret.arg)) => FailsWith("missing_field")
        /\ (Lacks(ret.arg) \/ Repeats(ret.arg)) => ~ret.result.ok
\* A document with the strings of a non-empty registry and no types.
C13_Witness ==
    /\ ret.op = "deserialize"
    /\ Count(ret.arg, "strings") = 1
    /\ Count(ret.arg, "types") = 0
    /\ FailsWith("missing_field")
    /\ Len(string_table) >= 2

(***************************************************************************)
(* C14.  Namespace::new fails with MissingSegments exactly when the        *)
(* segment sequence is empty; otherwise, when some segment is not an       *)
(* identifier, it fails with InvalidIdentifier whose segment is the         *)
(* smallest 0-based index of such a segment; otherwise it succeeds with     *)
(* the segments in the given order.                                         *)
(***************************************************************************)
InvalidSegments(segments) == {i \in 1..Len(segments) : ~is_rust_identifier(segments[i])}
C14_NamespaceNew ==
    ret.op = "Namespace::new" =>
        LET segments == ret.arg
            invalid == InvalidSegments(segments)
        IN /\ (ret.result = Err([kind |-> "MissingSegments"])) <=> (segments = <<>>)
           /\ (segments # <<>> /\ invalid # {}) =>
                \E i \in invalid :
                    /\ \A j \in invalid : i <= j
                    /\ ret.result = Err([kind |-> "InvalidIdentifier", segment |-> i - 1])
           /\ (segments # <<>> /\ invalid = {}) => ret.result = Ok(segments)
\* Two of three segments are invalid; the error names the first of them.
C14_Witness ==
    /\ ret.op = "Namespace::new"
    /\ ret.arg = <<<<"a">>, <<"1">>, <<>>>>
    /\ ret.result = Err([kind |-> "InvalidIdentifier", segment |-> 1])

(***************************************************************************)
(* C15.  Namespace::from_module_path(p) is Namespace::new of the pieces of  *)
(* p split on "::": identifiers joined by "::" give Ok with those segments  *)
(* in order, and a path that starts with "::" fails with                    *)
(* InvalidIdentifier{segment: 0}.                                           *)
(***************************************************************************)
RECURSIVE Join(_)
Join(segments) ==
    IF Len(segments) = 1 THEN segments[1]
    ELSE segments[1] \o <<":", ":">> \o Join(Tail(segments))
IdentifierLists ==
    {segments \in SeqsUpTo({w \in SegmentWords : is_rust_identifier(w)}, 2) : segments # <<>>}
C15_FromModulePath ==
    ret.op = "Namespace::from_module_path" =>
        LET p == ret.arg IN
        /\ ret.result = Namespace_new(split(p))
        /\ \A segments \in IdentifierLists : p = Join(segments) => ret.result = Ok(segments)
        /\ (Len(p) >= 2 /\ p[1] = ":" /\ p[2] = ":") =>
                ret.result = Err([kind |-> "InvalidIdentifier", segment |-> 0])
C15_Witness ==
    /\ ret.op = "Namespace::from_module_path"
    /\ ret.arg = <<"a", ":", ":", "_">>
    /\ ret.result = Ok(<<<<"a">>, <<"_">>>>)

(***************************************************************************)
(* C16.  A namespace returned by a constructor is the empty one of          *)
(* prelude(), or has at least one segment and only identifiers as           *)
(* segments: new and from_module_path never return Ok with no segment or    *)
(* with an invalid one, and only prelude() returns the empty namespace.     *)
(***************************************************************************)
NamespaceOps == {"Namespace::new", "Namespace::from_module_path", "Namespace::prelude"}
C16_NamespaceInvariant ==
    (ret.op \in NamespaceOps /\ ret.result.ok) =>
        LET segments == ret.result.v IN
        /\ (segments = <<>>) <=> (ret.op = "Namespace::prelude")
        /\ \A i \in 1..Len(segments) : is_rust_identifier(segments[i])
C16_Witness ==
    /\ ret.op = "Namespace::new"
    /\ ret.result.ok
    /\ Len(ret.result.v) = 3

(***************************************************************************)
(* C17.  The untagged encodings are unambiguous: deserializing what was    *)
(* written for a compacted TypeDef, TypeId or EnumVariant, the variants    *)
(* tried in declaration order, yields the variant that was written.        *)
(***************************************************************************)
C17_Unambiguous ==
    ret.op \in {"TypeId::deserialize", "TypeDef::deserialize", "EnumVariant::deserialize"} =>
        /\ ret.result.ok
        /\ ret.result.v.kind = ret.value.kind

(***************************************************************************)
(* C18.  The encoding of the TypeDef without fields and variants, Builtin, *)
(* is written for Builtin only (no Struct, TupleStruct, ClikeEnum, Enum or *)
(* Union, with or without fields or variants, is written that way) and is  *)
(* read back as Builtin; a TypeDef of another variant with no field and no *)
(* variant is read back as itself.                                          *)
(***************************************************************************)
NoFieldsNoVariants(def) ==
    CASE def.kind \in {"Struct", "TupleStruct", "Union"} -> def.fields = <<>>
      [] def.kind \in {"ClikeEnum", "Enum"} -> def.variants = <<>>
      [] OTHER -> TRUE
C18_BuiltinOnly ==
    /\ ret.op = "TypeDef::serialize" =>
            ((ret.result = Builtin_serialize) <=> (ret.arg = Builtin))
    /\ (ret.op = "TypeDef::deserialize" /\ ret.arg = Builtin_serialize) =>
            ret.result = Ok(Builtin)
    /\ (ret.op = "TypeDef::deserialize" /\ NoFieldsNoVariants(ret.value)) =>
            ret.result = Ok(ret.value)
\* The tuple struct without fields was written and read back.
C18_Witness ==
    /\ ret.op = "TypeDef::deserialize"
    /\ ret.value = TupleStruct(<<>>)
    /\ ret.result = Ok(TupleStruct(<<>>))


\* C19.  The scenario of the struct Point: the descriptor named Point under
\* the namespace pkg::Point, with the named fields x and y of type i32, is
\* registered into an empty registry.
PointRegistered ==
    /\ Idle /\ origin = "new" /\ calls = 1
    /\ ret.op = "register_type" /\ ret.arg = "Point"
StructEntries == {i \in 1..Len(definitions) : definitions[i].def.kind = "Struct"}
FieldNames(def) == [i \in 1..Len(def.fields) |-> strings[def.fields[i].name]]
Before(seq, a, b) ==
    \E i, n \in 1..Len(seq) : i < n /\ seq[i] = a /\ seq[n] = b
OneStructOfXY ==
    /\ Cardinality(StructEntries) = 1
    /\ \A i \in StructEntries : FieldNames(definitions[i].def) = <<"x", "y">>
\* C19 as stated: strings() yields pkg, Point, x, y in this order, and one
\* entry of definitions() is a Struct whose two fields reference x and y.
C19_NamespaceFirst ==
    PointRegistered =>
        /\ {"pkg", "Point", "x", "y"} \subseteq Range(strings)
        /\ Before(strings, "pkg", "Point")
        /\ Before(strings, "Point", "x")
        /\ Before(strings, "x", "y")
        /\ OneStructOfXY
\* C19, amended: register_type of the descriptor Point into an empty registry
\* leaves strings() yielding Point, pkg, x, y, the name before the segments
\* of the namespace, and definitions() yielding the Struct of Point, whose
\* two fields reference the symbols of x and y and the entry of i32, followed
\* by the Builtin entry of i32: exactly one entry is a Struct.
C19_PointScenario ==
    PointRegistered =>
        /\ strings = <<"Point", "pkg", "x", "y">>
        /\ OneStructOfXY
        /\ definitions =
             <<[id |-> Custom(1, <<2, 1>>, <<>>),
                def |-> Struct(<<NamedField(3, 2), NamedField(4, 2)>>)],
               [id |-> Primitive("i32"), def |-> Builtin]>>
        /\ ret.symbol = 1
C19_Witness ==
    PointRegistered /\ Len(strings) = 4 /\ Len(definitions) = 2


\* C20.  definitions(), iter() and strings() change nothing of the registry,
\* however often and in whatever order they are called; a traversal yields
\* what the previous traversal by the same accessor yielded when no other
\* call came in between; definitions() and iter() yield the entries by
\* ascending key, strings() the strings by ascending symbol.
NthKey(i) ==
    CHOOSE k \in DOMAIN types : Cardinality({n \in DOMAIN types : n < k}) = i - 1
InOrder(op, result) ==
    CASE op = "definitions" ->
            /\ Len(result) = Cardinality(DOMAIN types)
            /\ \A i \in 1..Len(result) : result[i] = types[NthKey(i)]
      [] op = "iter" ->
            /\ Len(result) = Cardinality(DOMAIN types)
            /\ \A i \in 1..Len(result) :
                  result[i] = [key |-> NthKey(i), value |-> types[NthKey(i)]]
      [] op = "strings" ->
            /\ Len(result) = Len(string_table)
            /\ \A i \in 1..Len(result) : result[i] = string_table[i]
C20_PureReads ==
    [][(Definitions \/ Iter \/ Strings) =>
          /\ UNCHANGED <<string_table, type_table, types>>
          /\ InOrder(ret'.op, ret'.result)
          /\ (ret.op \in ReadOps /\ ret.seen[ret'.op].some) =>
                ret'.result = ret.seen[ret'.op].v]_vars
C20_Witness ==
    /\ ret.op \in ReadOps
    /\ ret.reads = 2
    /\ Cardinality({op \in ReadOps : ret.seen[op].some}) = 1
    /\ Len(ret.result) >= 2


(***************************************************************************)
(* C21.  On a registry from Registry::new(), definitions() and the types   *)
(* list of the encoded registry yield the entries by ascending symbol, and *)
(* that is the order in which the identities were first passed to          *)
(* register_type, not the order in which their entries were inserted.      *)
(***************************************************************************)
C21_FirstRegisteredFirst ==
    (Idle /\ origin = "new") =>
        /\ Len(definitions) = Len(hist.type_order)
        /\ \A i \in 1..Len(definitions) :
              /\ definitions[i] = types[i]
              /\ hist.stored_at[hist.type_order[i]] = {i}
              /\ hist.type_results[hist.type_order[i]] = {i}
        /\ ret.op = "serialize" =>
              TypesList(ret.result) =
                 [i \in 1..Len(hist.type_order) |-> TypeIdDef_serialize(types[i])]
C21_Witness ==
    /\ Idle /\ origin = "new"
    /\ ret.op = "serialize"
    /\ Len(TypesList(ret.result)) >= 2
    /\ hist.finish_order # hist.type_order

(***************************************************************************)
(* C22.  On a registry from Registry::new() the keys of the entries store  *)
(* are symbols of the type-identity table; the symbols without an entry    *)
(* are exactly those of the identities whose register_type call is on the  *)
(* call stack, so an idle registry has the keys 1..n.                      *)
(***************************************************************************)
InProgress == {stack[i].symbol : i \in 1..Len(stack)}
C22_KeysOrInProgress ==
    origin = "new" =>
        /\ DOMAIN types \subseteq 1..Len(type_table)
        /\ (1..Len(type_table)) \ DOMAIN types = InProgress
        /\ \A i \in 1..Len(stack) : type_table[stack[i].symbol] = stack[i].ty
        /\ Idle => DOMAIN types = 1..Len(type_table)
C22_Witness ==
    /\ origin = "new"
    /\ Len(stack) >= 2
    /\ \E k \in DOMAIN types : \E s \in InProgress : s < k

(***************************************************************************)
(* C23.  Referential closure: on an idle registry from Registry::new()     *)
(* every type symbol inside a stored entry is a key of the entries store   *)
(* and every string symbol inside a stored entry is the symbol of an       *)
(* interned string.                                                        *)
(***************************************************************************)
CompactFields_string_symbols(fields) ==
    {fields[i].name : i \in {n \in 1..Len(fields) : "name" \in DOMAIN fields[n]}}
CompactTypeId_string_symbols(id) ==
    IF id.kind = "Custom" THEN {id.name} \cup Range(id.namespace) ELSE {}
CompactTypeDef_string_symbols(def) ==
    CASE def.kind \in {"Struct", "TupleStruct", "Union"} ->
            CompactFields_string_symbols(def.fields)
      [] def.kind = "ClikeEnum" -> {def.variants[i].name : i \in 1..Len(def.variants)}
      [] def.kind = "Enum" ->
            UNION {{def.variants[i].name} \cup
                   (IF def.variants[i].kind = "Unit" THEN {}
                    ELSE CompactFields_string_symbols(def.variants[i].fields)) :
                   i \in 1..Len(def.variants)}
      [] OTHER -> {}
StringSymbols(entry) ==
    CompactTypeId_string_symbols(entry.id) \cup CompactTypeDef_string_symbols(entry.def)
C23_ReferentialClosure ==
    (Idle /\ origin = "new") =>
        \A k \in DOMAIN types :
            /\ Range(TypeSymbols(types[k])) \subseteq DOMAIN types
            /\ StringSymbols(types[k]) \subseteq 1..Len(string_table)
C23_Witness ==
    /\ Idle /\ origin = "new"
    /\ \E k \in DOMAIN types :
          /\ \E s \in Range(TypeSymbols(types[k])) : s > k
          /\ \E s \in Range(TypeSymbols(types[k])) : s = k
          /\ Cardinality(StringSymbols(types[k])) >= 3

(***************************************************************************)
(* C24.  An identity first interned during the compaction of a descriptor  *)
(* gets a symbol greater than the symbol of that descriptor (and of every  *)
(* descriptor whose compaction is in progress), and the first descriptor   *)
(* registered in a registry from Registry::new() gets, and returns, 1.     *)
(***************************************************************************)
C24_SymbolBeforeDescent ==
    [][/\ Len(stack') > Len(stack) =>
            /\ \A i \in 1..Len(stack) : stack'[Len(stack')].symbol > stack[i].symbol
            /\ (origin = "new" /\ type_table = <<>>) => stack'[1].symbol = 1
       /\ (/\ origin = "new"
           /\ ret'.op = "register_type" /\ ret'.symbol # 0
           /\ ret'.arg = hist'.type_order[1]) => ret'.symbol = 1]_vars
C24_Witness ==
    /\ origin = "new"
    /\ Len(stack) >= 2
    /\ stack[1].symbol >= 2
    /\ stack[2].symbol > stack[1].symbol
    /\ Len(stack[1].done) >= 1

(***************************************************************************)
(* C25.  The calls of one register_type activation come in a fixed order:  *)
(* those of the TypeId before those of the TypeDef; for a Custom TypeId    *)
(* the name, the namespace segments left to right, the type parameters     *)
(* left to right; for a named field the name before the type.  A string    *)
(* first seen at a call gets a symbol above the symbols of all strings the *)
(* activation interned before.                                             *)
(***************************************************************************)
\* The order the claim states, for a Custom TypeId and for named fields
OrderOfCustom(id) ==
    <<S(id.name)>> \o [i \in 1..Len(id.namespace) |-> S(id.namespace[i])]
                   \o [i \in 1..Len(id.type_params) |-> T(id.type_params[i])]
OrderOfNamedFields(fields) ==
    [i \in 1..2 * Len(fields) |->
        IF i % 2 = 1 THEN S(fields[(i + 1) \div 2].name) ELSE T(fields[i \div 2].ty)]
OrderOf(ty) ==
    (IF type_id(ty).kind = "Custom" THEN OrderOfCustom(type_id(ty))
     ELSE TypeId_calls(type_id(ty)))
    \o (IF type_def(ty).kind \in {"Struct", "Union"}
        THEN OrderOfNamedFields(type_def(ty).fields)
        ELSE TypeDef_calls(type_def(ty)))
\* The i-th call of the activation returned the symbol of the i-th value
InOrderOf(frame, strs, tys) ==
    /\ Len(frame.done) + Len(frame.todo) = Len(OrderOf(frame.ty))
    /\ \A i \in 1..Len(frame.done) :
          LET c == OrderOf(frame.ty)[i] IN
          IF c.op = "register_string" THEN strs[frame.done[i]] = c.arg
          ELSE tys[frame.done[i]] = c.arg
StringResults(frame) ==
    {frame.done[i] : i \in {n \in 1..Len(frame.done) :
                               OrderOf(frame.ty)[n].op = "register_string"}}
C25_InterningOrder ==
    [][/\ \A i \in 1..Len(stack') : InOrderOf(stack'[i], string_table', type_table')
       /\ Len(string_table') > Len(string_table) =>
             \A i \in 1..Len(stack) : \A s \in StringResults(stack[i]) :
                 s < Len(string_table')
       /\ (stack # <<>> /\ Len(string_table') > Len(string_table)) =>
             stack'[Len(stack')].done = Append(Top.done, Len(string_table'))]_vars
C25_Witness ==
    /\ stack # <<>>
    /\ stack[1].ty = "Point"
    /\ stack[1].done = <<1, 2, 1, 3, 2>>
    /\ string_table = <<"Point", "pkg", "x">>

(***************************************************************************)
(* C26.  register_string, called by a caller or by an into_compact, on a   *)
(* new or a decoded registry, leaves the type-identity table and the       *)
(* entries store as they were.                                             *)
(***************************************************************************)
C26_StringTableOnly ==
    [][\A s \in AllStrings :
          StringCall(s) => /\ type_table' = type_table
                           /\ types' = types]_vars
\* A caller interned a new string in a decoded registry that holds
\* identities and entries.
C26_Witness ==
    /\ ret.op = "register_string" /\ ret.symbol = Len(string_table)
    /\ type_table # <<>> /\ types # <<>>
    /\ origin = "decoded"

(***************************************************************************)
(* C27.  A decode that fails with a missing-field error names a field that *)
(* is absent from the document: `types` when `types` is absent and         *)
(* `strings` is there, `strings` when `strings` is absent.                 *)
(***************************************************************************)
C27_NamesAbsentField ==
    (ret.op = "deserialize" /\ FailsWith("missing_field")) =>
        /\ Count(ret.arg, ret.result.error.field) = 0
        /\ (Count(ret.arg, "types") = 0 /\ Count(ret.arg, "strings") = 1) =>
              ret.result.error.field = "types"
        /\ Count(ret.arg, "strings") = 0 => ret.result.error.field = "strings"

(***************************************************************************)
(* C28.  On a decoded registry a register_type call leaves every entry of  *)
(* the entries store under its key as it was, and stores the entry of the  *)
(* newly registered identity under a symbol that was not a key.            *)
(***************************************************************************)
C28_DecodedEntriesKept ==
    [][(origin = "decoded" /\ types # <<>> /\ Finish) =>
          /\ \A k \in DOMAIN types : types'[k] = types[k]
          /\ Top.symbol \notin DOMAIN types]_vars

(***************************************************************************)
(* C29.  Namespace::from_module_path never fails with MissingSegments: the *)
(* split on "::" yields at least one piece for every string, so the result *)
(* is Ok or InvalidIdentifier; the empty string yields the one empty       *)
(* piece and fails with InvalidIdentifier{segment: 0}.                     *)
(***************************************************************************)
C29_NeverMissingSegments ==
    ret.op = "Namespace::from_module_path" =>
        /\ Len(split(ret.arg)) >= 1
        /\ ~ret.result.ok => ret.result.error.kind = "InvalidIdentifier"
        /\ ret.arg = <<>> =>
              /\ split(ret.arg) = << <<>> >>
              /\ ret.result = Err([kind |-> "InvalidIdentifier", segment |-> 0])
C29_Witness ==
    /\ ret.op = "Namespace::from_module_path"
    /\ ret.arg = <<>>
    /\ ~ret.result.ok

====
